---- MODULE Spec2Model ----
(***************************************************************************)
(* Model of sphinx_gherkin/markup/autodoc.py: the autodoc directives       *)
(* (AutoKeywordDescription and its variants) and the Documenter hierarchy. *)
(*                                                                         *)
(* Text is modelled as a sequence of atoms: one-character strings, and     *)
(* the fixed markup words of the generated reST ("..", "::", "list-table", *)
(* "code-block") which hold no whitespace and no cased character.  Slicing,*)
(* splitting, stripping and case conversion are computed on the sequence   *)
(* the way Python computes them on the string.                             *)
(***************************************************************************)
EXTENDS Integers, Sequences, FiniteSets, TLC

VARIABLES
    kwCls,      \* keyword property: the directive class whose property is read
    kwName,     \* keyword property: self.name, the invocation name
    kwLabel,    \* keyword property: the value returned
    kwPc,       \* keyword property: "idle" before the read, "done" after
    tblIndent,  \* format_datatable: self.indent of the Documenter it is called on
    tblValues,  \* format_datatable: datatable.values
    tblOut,     \* format_datatable: the lines appended to bridge.result
    tblPc,      \* format_datatable: "idle" before the call, "done" after
    registry,   \* env.app.registry.documenters: objtype tag -> class
    documents,  \* gherkin_domain.gherkin_documents.documents: key -> Document
    sources,    \* get_config_gherkin_sources(env).values(), in order
    directive,  \* the directive instance run() is called on (name, arguments, options, content)
    pc,         \* where run() stands
    documenter_class, \* run(): the class looked up in the registry
    genopt,     \* bridge.genopt: the validated options
    found,      \* run(): the (document, keyword) pair of get_gherkin_definition
    stack,      \* the Documenter instances whose generate() is active, innermost last
    result,     \* bridge.result: the lines appended, each with its source
    origin,     \* per line of result: the node and part that appended it, self.indent
                \* and the published scope at that moment (history, not read by the code)
    deps,       \* bridge.record_dependencies
    scope,      \* env.ref_context["gherkin:scope"]
    diagnostics,\* the log.error records
    recorded,   \* state.document.settings.record_dependencies
    ret,        \* what run() returned
    error,      \* the exception run() raised
    foreignGenerated \* generate() was called on a registry entry that is no Documenter

kwVars == <<kwCls, kwName, kwLabel, kwPc>>

tblVars == <<tblIndent, tblValues, tblOut, tblPc>>

envVars == <<registry, documents, sources>>

runVars == <<directive, pc, documenter_class, genopt, found, stack, result, origin, deps,
             scope, diagnostics, recorded, ret, error, foreignGenerated>>

vars == <<kwVars, tblVars, envVars, runVars>>

None == "None"

(***************************************************************************)
(* Python string primitives.                                               *)
(***************************************************************************)
Lowers == <<"a", "b", "c", "d", "e", "f", "g", "h", "i", "j", "k", "l", "m",
            "n", "o", "p", "q", "r", "s", "t", "u", "v", "w", "x", "y", "z">>

Uppers == <<"A", "B", "C", "D", "E", "F", "G", "H", "I", "J", "K", "L", "M",
            "N", "O", "P", "Q", "R", "S", "T", "U", "V", "W", "X", "Y", "Z">>

IsLower(c) == \E i \in DOMAIN Lowers : Lowers[i] = c

IsUpper(c) == \E i \in DOMAIN Uppers : Uppers[i] = c

ToUpper(c) == IF IsLower(c) THEN Uppers[CHOOSE i \in DOMAIN Lowers : Lowers[i] = c] ELSE c

ToLower(c) == IF IsUpper(c) THEN Lowers[CHOOSE i \in DOMAIN Uppers : Uppers[i] = c] ELSE c

IsSpace(c) == c \in {" ", "\n", "\t"}

\* s[n:]
DropChars(s, n) == IF n >= Len(s) THEN <<>> ELSE SubSeq(s, n + 1, Len(s))

\* c in s
Contains(s, c) == \E i \in DOMAIN s : s[i] = c

\* s.split(c, 1)[1], for s that contains c
AfterFirst(s, c) == DropChars(s, CHOOSE i \in DOMAIN s : s[i] = c /\ \A j \in 1..(i - 1) : s[j] # c)

\* str.title(): a cased character is upper-cased when the previous character
\* is not cased, and lower-cased when it is.
Title(s) ==
    [i \in DOMAIN s |->
        LET prevCased == i > 1 /\ (IsLower(s[i - 1]) \/ IsUpper(s[i - 1]))
        IN  IF prevCased THEN ToLower(s[i]) ELSE ToUpper(s[i])]

\* str.lower()
Lower(s) == [i \in DOMAIN s |-> ToLower(s[i])]

RECURSIVE LStrip(_)
\* str.lstrip()
LStrip(s) == IF s # <<>> /\ IsSpace(Head(s)) THEN LStrip(Tail(s)) ELSE s

RECURSIVE RStrip(_)
\* str.rstrip()
RStrip(s) == IF s # <<>> /\ IsSpace(s[Len(s)]) THEN RStrip(SubSeq(s, 1, Len(s) - 1)) ELSE s

\* str.strip()
Strip(s) == RStrip(LStrip(s))

RECURSIVE StripChar(_, _)
\* str.strip(c) for a single character c
StripChar(s, c) ==
    IF s # <<>> /\ Head(s) = c THEN StripChar(Tail(s), c)
    ELSE IF s # <<>> /\ s[Len(s)] = c THEN StripChar(SubSeq(s, 1, Len(s) - 1), c)
    ELSE s

RECURSIVE SeqsUpTo(_, _)
\* every sequence over S of at most n elements
SeqsUpTo(S, n) ==
    IF n = 0 THEN {<<>>}
    ELSE LET shorter == SeqsUpTo(S, n - 1)
         IN  shorter \cup {Append(s, c) : s \in shorter, c \in S}

(***************************************************************************)
(* AutoKeywordDescription.keyword and its Scenario-Outline override.       *)
(***************************************************************************)
PrefixLen == 4

ScenarioOutlineLabel == <<"S", "c", "e", "n", "a", "r", "i", "o", " ", "O", "u", "t", "l", "i", "n", "e">>

\* AutoKeywordDescription.keyword
BaseKeyword(name) ==
    LET directivename == IF Contains(DropChars(name, PrefixLen), ":")
                         THEN AfterFirst(name, ":")
                         ELSE name
    IN  Title(DropChars(directivename, PrefixLen))

\* the keyword property as resolved on a directive of class cls
Keyword(cls, name) ==
    IF cls = "AutoScenarioOutlineDescription" THEN ScenarioOutlineLabel ELSE BaseKeyword(name)

(***************************************************************************)
(* Documenter.add_line and format_datatable.                               *)
(***************************************************************************)
\* Documenter.content_indent
content_indent == <<" ", " ", " ", " ">>

RECURSIVE Indent(_)
\* self.indent after n additions of content_indent
Indent(n) == IF n = 0 THEN <<>> ELSE Indent(n - 1) \o content_indent

\* Documenter.add_line: the string appended to bridge.result
AddLine(indent, line) == IF Strip(line) # <<>> THEN indent \o line ELSE <<>>

ListTableMarker == <<"..", " ", "list-table", "::">>

\* the inner loop of format_datatable over one row
FormatRow(indent, row) ==
    [c \in DOMAIN row |->
        IF c = 1
        THEN AddLine(indent, content_indent \o <<"*", " ", "-", " ">> \o row[c])
        ELSE AddLine(indent, content_indent \o <<" ", " ", "-", " ">> \o row[c])]

RECURSIVE FormatRows(_, _)
\* the outer loop of format_datatable
FormatRows(indent, values) ==
    IF values = <<>> THEN <<>>
    ELSE FormatRow(indent, Head(values)) \o FormatRows(indent, Tail(values))

RECURSIVE FormatRowsFirstOnce(_, _, _)
FormatRowsFirstOnce(indent, values, first) ==
    IF values = <<>> THEN <<>>
    ELSE LET row == Head(values)
             items == [c \in DOMAIN row |->
                          IF first /\ c = 1
                          THEN AddLine(indent, content_indent \o <<"*", " ", "-", " ">> \o row[c])
                          ELSE AddLine(indent, content_indent \o <<" ", " ", "-", " ">> \o row[c])]
         IN  items \o FormatRowsFirstOnce(indent, Tail(values), first /\ row = <<>>)

\* format_datatable with first set once, before the outer loop
FormatDatatableFirstOnce(indent, values) ==
    <<AddLine(indent, ListTableMarker), AddLine(indent, <<>>)>>
    \o FormatRowsFirstOnce(indent, values, TRUE)

\* format_datatable: the lines it appends
FormatDatatable(indent, values) ==
    <<AddLine(indent, ListTableMarker), AddLine(indent, <<>>)>> \o FormatRows(indent, values)

(***************************************************************************)
(* The keyword tree (sphinx_gherkin.gherkin, consumed read-only).  A node  *)
(* carries its class, its keyword label, its summary and, by class, a      *)
(* description, a docstring, a datatable, children, steps and examples.    *)
(* path is the node's position below the Feature and serves as identity.   *)
(***************************************************************************)
Node(cls, path, keyword, summary, description, docstring, datatable, children, steps, examples) ==
    [cls |-> cls, path |-> path, keyword |-> keyword, summary |-> summary,
     description |-> description, docstring |-> docstring, datatable |-> datatable,
     children |-> children, steps |-> steps, examples |-> examples]

\* the nodes directly below a node, in document order
Members(node) == node.children \o node.steps \o node.examples

RECURSIVE Size(_), SizeAll(_)
Size(node) == 1 + SizeAll(Members(node))

SizeAll(nodes) == IF nodes = <<>> THEN 0 ELSE Size(Head(nodes)) + SizeAll(Tail(nodes))

RECURSIVE Preorder(_), PreorderAll(_)
\* the nodes of a subtree, depth first, in document order
Preorder(node) == <<node>> \o PreorderAll(Members(node))

PreorderAll(nodes) == IF nodes = <<>> THEN <<>> ELSE Preorder(Head(nodes)) \o PreorderAll(Tail(nodes))

NodesOf(node) == LET pre == Preorder(node) IN {pre[i] : i \in DOMAIN pre}

\* the node of the tree below feature at path
NodeAt(feature, path) == CHOOSE n \in NodesOf(feature) : n.path = path

IsPrefix(p, q) == Len(p) <= Len(q) /\ SubSeq(q, 1, Len(p)) = p

RECURSIVE GetAncestry(_, _)
\* Document.get_ancestry: from the node up to the Feature, leaf first
GetAncestry(document, path) ==
    IF path = <<>> THEN <<document.feature>>
    ELSE <<NodeAt(document.feature, path)>> \o GetAncestry(document, SubSeq(path, 1, Len(path) - 1))

\* reversed(seq)
Reversed(seq) == [i \in DOMAIN seq |-> seq[Len(seq) + 1 - i]]

\* Documenter.documented_keyword without the reversal
DocumentedKeywordLeafFirst(document, node) ==
    LET ancestry == GetAncestry(document, node.path)
    IN  [i \in DOMAIN ancestry |-> <<ancestry[i].keyword, ancestry[i].summary>>]

\* Documenter.documented_keyword
DocumentedKeyword(document, node) ==
    LET ancestry == Reversed(GetAncestry(document, node.path))
    IN  [i \in DOMAIN ancestry |-> <<ancestry[i].keyword, ancestry[i].summary>>]

(***************************************************************************)
(* Keyword kinds, their words, labels and object-type tags.                *)
(***************************************************************************)
FeatureWord == <<"f", "e", "a", "t", "u", "r", "e">>

RuleWord == <<"r", "u", "l", "e">>

BackgroundWord == <<"b", "a", "c", "k", "g", "r", "o", "u", "n", "d">>

ScenarioWord == <<"s", "c", "e", "n", "a", "r", "i", "o">>

ExamplesWord == <<"e", "x", "a", "m", "p", "l", "e", "s">>

StepWord == <<"s", "t", "e", "p">>

OutlineWord == <<"o", "u", "t", "l", "i", "n", "e">>

AutoPrefix == <<"a", "u", "t", "o">>

GherkinQualifier == <<"g", "h", "e", "r", "k", "i", "n", ":">>

\* GherkinDomain.name
DomainName == "gherkin"

\* keyword_to_objtype: the object-type tag of a keyword label; a label of no
\* keyword kind has a tag no Documenter is registered under
KeywordToObjtype(label) ==
    CASE label = Title(FeatureWord) -> "feature"
      [] label = Title(RuleWord) -> "rule"
      [] label = Title(BackgroundWord) -> "background"
      [] label = Title(ScenarioWord) -> "scenario"
      [] label = ScenarioOutlineLabel -> "scenario"
      [] label = Title(ExamplesWord) -> "examples"
      [] label = Title(StepWord) -> "step"
      [] OTHER -> "unknown"

\* gherkin_documents.objtype_for_keyword_class
ObjtypeForKeywordClass(cls) ==
    CASE cls = "Feature" -> "feature"
      [] cls = "Rule" -> "rule"
      [] cls = "Background" -> "background"
      [] cls = "Scenario" -> "scenario"
      [] cls = "Examples" -> "examples"
      [] cls = "Step" -> "step"

\* the objtype attribute of each Documenter class
ObjType(documenter) ==
    CASE documenter = "FeatureDocumenter" -> "feature"
      [] documenter = "BackgroundDocumenter" -> "background"
      [] documenter = "ScenarioDocumenter" -> "scenario"
      [] documenter = "RuleDocumenter" -> "rule"
      [] documenter = "StepDocumenter" -> "step"
      [] documenter = "ExamplesDocumenter" -> "examples"
      [] OTHER -> "object"

DocumenterClasses ==
    {"FeatureDocumenter", "BackgroundDocumenter", "ScenarioDocumenter", "RuleDocumenter",
     "StepDocumenter", "ExamplesDocumenter"}

\* issubclass(documenter_class, Documenter)
IsDocumenter(cls) == cls \in DocumenterClasses

\* ScenarioDocumenter.get_child_keywords with the examples first
ChildKeywordsExamplesFirst(documenter, node) ==
    CASE documenter = "FeatureDocumenter" -> node.children
      [] documenter = "BackgroundDocumenter" -> node.steps
      [] documenter = "ScenarioDocumenter" -> node.examples \o node.steps
      [] documenter = "RuleDocumenter" -> node.children
      [] OTHER -> <<>>

\* get_child_keywords of each Documenter class
ChildKeywords(documenter, node) ==
    CASE documenter = "FeatureDocumenter" -> node.children
      [] documenter = "BackgroundDocumenter" -> node.steps
      [] documenter = "ScenarioDocumenter" -> node.steps \o node.examples
      [] documenter = "RuleDocumenter" -> node.children
      [] OTHER -> <<>>

\* get_directive_name of each Documenter class
GetDirectiveName(documenter, node) ==
    IF documenter = "StepDocumenter"
    THEN Lower(StripChar(Strip(node.keyword), ":"))
    ELSE <<ObjType(documenter)>>

(***************************************************************************)
(* Reference resolution: get_gherkin_definition.                           *)
(***************************************************************************)
\* the not-found error of a lookup, in place of its (document, keyword) pair
NotFound == [ok |-> FALSE]

\* the (document, keyword) pair a lookup returns: the Document by its key in
\* the store, the keyword by its path in the Document
Found(key, path) == [ok |-> TRUE, document |-> key, keyword |-> path]

RECURSIVE SplitOn(_, _)
\* s.split(c)
SplitOn(s, c) ==
    IF ~Contains(s, c) THEN <<s>>
    ELSE LET i == CHOOSE k \in DOMAIN s : s[k] = c /\ \A j \in 1..(k - 1) : s[j] # c
         IN  <<SubSeq(s, 1, i - 1)>> \o SplitOn(DropChars(s, i), c)

RECURSIVE JoinWith(_, _)
\* c.join(parts)
JoinWith(parts, c) ==
    IF parts = <<>> THEN <<>>
    ELSE IF Len(parts) = 1 THEN parts[1]
    ELSE parts[1] \o <<c>> \o JoinWith(Tail(parts), c)

\* str(PurePosixPath(s)): empty and "." components dropped
PathStr(s) ==
    LET parts == SelectSeq(SplitOn(s, "/"), LAMBDA part : part # <<>> /\ part # <<".">>)
        isAbs == s # <<>> /\ Head(s) = "/"
    IN  IF isAbs THEN <<"/">> \o JoinWith(parts, "/")
        ELSE IF parts = <<>> THEN <<".">>
        ELSE JoinWith(parts, "/")

\* str(path.joinpath(sig)): an absolute sig replaces the root
JoinPath(root, sig) ==
    IF sig # <<>> /\ Head(sig) = "/" THEN PathStr(sig) ELSE PathStr(root \o <<"/">> \o sig)

AllNodes(docs) == UNION {NodesOf(docs[k].feature) : k \in DOMAIN docs}

\* gherkin_documents.find_one: the keyword of that fully-qualified name and
\* its Document, or not found
FindOne(docs, rst_keyword) ==
    IF \E k \in DOMAIN docs : \E n \in NodesOf(docs[k].feature) : n.summary = rst_keyword
    THEN LET k == CHOOSE key \in DOMAIN docs : \E n \in NodesOf(docs[key].feature) : n.summary = rst_keyword
         IN  Found(k, (CHOOSE n \in NodesOf(docs[k].feature) : n.summary = rst_keyword).path)
    ELSE NotFound

\* KeywordDirectiveMixin.get_name
GetName(sig) == sig

\* AutoKeywordDescription.get_gherkin_definition
DefaultGetGherkinDefinition(docs, sig) == FindOne(docs, GetName(sig))

RECURSIVE FirstCandidate(_, _, _)
\* the for loop of AutoFeatureDescription.get_gherkin_definition: the first
\* candidate that is a key of documents, or (for/else) the KeyError
FirstCandidate(docs, roots, sig) ==
    IF roots = <<>> THEN NotFound
    ELSE LET candidate == JoinPath(Head(roots), sig)
         IN  IF candidate \in DOMAIN docs
             THEN Found(candidate, docs[candidate].feature.path)
             ELSE FirstCandidate(docs, Tail(roots), sig)

RECURSIVE LastCandidate(_, _, _)
\* the same loop without its return: the last matching candidate wins
LastCandidate(docs, roots, sig) ==
    IF roots = <<>> THEN NotFound
    ELSE LET candidate == JoinPath(roots[Len(roots)], sig)
         IN  IF candidate \in DOMAIN docs
             THEN Found(candidate, docs[candidate].feature.path)
             ELSE LastCandidate(docs, SubSeq(roots, 1, Len(roots) - 1), sig)

\* AutoFeatureDescription.get_gherkin_definition with the last match taken
FeatureGetGherkinDefinitionLast(docs, roots, sig) ==
    LET first == LastCandidate(docs, roots, sig)
    IN  IF ~first.ok THEN DefaultGetGherkinDefinition(docs, sig) ELSE first

\* AutoFeatureDescription.get_gherkin_definition
FeatureGetGherkinDefinition(docs, roots, sig) ==
    LET first == FirstCandidate(docs, roots, sig)
    IN  IF ~first.ok THEN DefaultGetGherkinDefinition(docs, sig) ELSE first

\* get_gherkin_definition as resolved on a directive of class cls
GetGherkinDefinition(cls, docs, roots, sig) ==
    IF cls = "AutoFeatureDescription"
    THEN FeatureGetGherkinDefinition(docs, roots, sig)
    ELSE DefaultGetGherkinDefinition(docs, sig)

(***************************************************************************)
(* Option processing: assemble_option_dict against Documenter.option_spec. *)
(***************************************************************************)
\* Documenter.option_spec, inherited by every Documenter class; a registry
\* entry that is no Documenter is taken to quack alike (run() casts it)
OptionSpec(cls) == [name \in {"noindex"} |-> "flag"]

\* directives.flag: no argument allowed
ConverterAccepts(convertor, value) == convertor = "flag" /\ Strip(value) = <<>>

RECURSIVE AssembleOptionDictLenient(_, _)
\* assemble_option_dict skipping the names the schema does not know
AssembleOptionDictLenient(items, spec) ==
    IF items = <<>> THEN [exc |-> None, options |-> {}]
    ELSE LET name == Head(items)[1]
             value == Head(items)[2]
             rest == AssembleOptionDictLenient(Tail(items), spec)
         IN  IF name \notin DOMAIN spec THEN rest
             ELSE IF ~ConverterAccepts(spec[name], value) THEN [exc |-> "ValueError", options |-> {}]
             ELSE IF rest.exc # None THEN rest
             ELSE [exc |-> None, options |-> {name} \cup rest.options]

RECURSIVE AssembleOptionDict(_, _)
\* assemble_option_dict(self.options.items(), documenter_class.option_spec):
\* the exception of the first bad option, or the names of the converted options
AssembleOptionDict(items, spec) ==
    IF items = <<>> THEN [exc |-> None, options |-> {}]
    ELSE LET name == Head(items)[1]
             value == Head(items)[2]
             rest == AssembleOptionDict(Tail(items), spec)
         IN  IF name \notin DOMAIN spec THEN [exc |-> "KeyError", options |-> {}]
             ELSE IF ~ConverterAccepts(spec[name], value) THEN [exc |-> "ValueError", options |-> {}]
             ELSE IF rest.exc # None THEN rest
             ELSE [exc |-> None, options |-> {name} \cup rest.options]

(***************************************************************************)
(* Documenter.generate and its parts.  Each part yields the lines it       *)
(* appends to bridge.result: [line, source, part], part naming the         *)
(* statement that appended it: the "header", an "option" line, the blank   *)
(* "sep" line after them, a "content" line of the keyword, a "more" line   *)
(* of the directive body, the blank "end" line after the content.          *)
(***************************************************************************)
Entry(indent, text, source, part) == [line |-> AddLine(indent, text), source |-> source, part |-> part]

RECURSIVE SplitLines(_)
\* str.splitlines(): no line for a trailing line break
SplitLines(s) ==
    IF s = <<>> THEN <<>>
    ELSE IF ~Contains(s, "\n") THEN <<s>>
    ELSE LET i == CHOOSE k \in DOMAIN s : s[k] = "\n" /\ \A j \in 1..(k - 1) : s[j] # "\n"
         IN  <<SubSeq(s, 1, i - 1)>> \o SplitLines(DropChars(s, i))

\* Documenter.format_options: no Documenter class formats any
FormatOptions(documenter) == <<>>

\* Documenter.add_directive_header
AddDirectiveHeader(documenter, node, indent, sourcename) ==
    <<Entry(indent,
            <<"..", " ", DomainName, ":">> \o GetDirectiveName(documenter, node) \o <<"::", " ">> \o node.summary,
            sourcename, "header")>>
    \o [k \in DOMAIN FormatOptions(documenter) |->
           Entry(indent, content_indent \o FormatOptions(documenter)[k], sourcename, "option")]

\* Documenter.add_content
BaseAddContent(indent, more_content) ==
    [k \in DOMAIN more_content |-> Entry(indent, more_content[k].line, more_content[k].source, "more")]

NoDocstring == [absent |-> TRUE]

NoDatatable == [absent |-> TRUE]

\* the docstring block of StepDocumenter.add_content
DocstringBlock(indent, docstring, sourcename) ==
    LET lines == SplitLines(docstring.content)
    IN  <<Entry(indent, <<"..", " ", "code-block", "::", " ">> \o docstring.mediatype, sourcename, "content"),
          Entry(indent, <<>>, sourcename, "content")>>
        \o [k \in DOMAIN lines |-> Entry(indent, content_indent \o lines[k], sourcename, "content")]
        \o <<Entry(indent, <<>>, sourcename, "content")>>

\* format_datatable(self, datatable) and the blank line its callers add
DatatableBlock(indent, datatable, sourcename) ==
    LET lines == FormatDatatable(indent, datatable.values)
    IN  [k \in DOMAIN lines |-> [line |-> lines[k], source |-> sourcename, part |-> "content"]]
        \o <<Entry(indent, <<>>, sourcename, "content")>>

\* add_content of each Documenter class
AddContent(documenter, node, indent, sourcename, more_content) ==
    CASE documenter = "FeatureDocumenter" ->
            LET lines == SplitLines(node.description)
            IN  [k \in DOMAIN lines |-> Entry(indent, LStrip(lines[k]), sourcename, "content")]
                \o BaseAddContent(indent, more_content)
      [] documenter = "StepDocumenter" ->
            (IF node.docstring # NoDocstring THEN DocstringBlock(indent, node.docstring, sourcename) ELSE <<>>)
            \o (IF node.datatable # NoDatatable THEN DatatableBlock(indent, node.datatable, sourcename) ELSE <<>>)
            \o BaseAddContent(indent, more_content)
      [] documenter = "ExamplesDocumenter" ->
            DatatableBlock(indent, node.datatable, sourcename) \o BaseAddContent(indent, more_content)
      [] OTHER -> BaseAddContent(indent, more_content)

\* generate(): self.indent += self.content_indent, dropped
IncreaseIndentForgotten(indent) == indent

\* generate(): self.indent += self.content_indent
IncreaseIndent(indent) == indent \o content_indent

(***************************************************************************)
(* AutoKeywordDescription.keyword: the invocation names it is read on.     *)
(* Every name of at most MaxNameLen characters over a small alphabet with  *)
(* at most one colon, and names the directives are invoked under.          *)
(***************************************************************************)
MaxNameLen == 6

NameAlphabet == {"a", "S", ":"}

ColonCount(s) == Cardinality({i \in DOMAIN s : s[i] = ":"})

RealNames ==
    {AutoPrefix \o ScenarioWord,
     GherkinQualifier \o AutoPrefix \o ScenarioWord,
     <<"r", "s", "t", ":">> \o AutoPrefix \o ScenarioWord,
     AutoPrefix \o ScenarioWord \o OutlineWord,
     GherkinQualifier \o AutoPrefix \o ScenarioWord \o OutlineWord}

InvocationNames == {s \in SeqsUpTo(NameAlphabet, MaxNameLen) : ColonCount(s) <= 1} \cup RealNames

KeywordIdle ==
    /\ kwPc = "idle"
    /\ kwCls = "none"
    /\ kwName = <<>>
    /\ kwLabel = <<>>

(***************************************************************************)
(* format_datatable: the tables it is called on.  Every table of at most   *)
(* MaxRows rows of at most MaxCols cells over two cell texts, and the      *)
(* table a b / c d, under each indentation of at most MaxIndent units.     *)
(***************************************************************************)
MaxRows == 2

MaxCols == 2

MaxIndent == 2

CellTexts == {<<"a">>, <<"b">>}

TableRows == SeqsUpTo(CellTexts, MaxCols)

ExampleTable == << <<<<"a">>, <<"b">>>>, <<<<"c">>, <<"d">>>> >>

Tables == SeqsUpTo(TableRows, MaxRows) \cup {ExampleTable}

TableIdle ==
    /\ tblPc = "idle"
    /\ tblIndent = <<>>
    /\ tblValues = <<>>
    /\ tblOut = <<>>

(***************************************************************************)
(* run(): the environments and directives it is called in.                 *)
(*  - a healthy registry and one Document of at most MaxNodes keywords,    *)
(*    every optional attribute left out or every one given, or of at most  *)
(*    MaxContentNodes keywords, each attribute left out or given;          *)
(*  - a registry with one entry missing or not a Documenter, and one       *)
(*    Document of at most MaxFaultNodes keywords;                          *)
(*  - a healthy registry, any set of three one-keyword Documents and any   *)
(*    sequence of at most MaxRoots source roots.                           *)
(* A node has at most MaxWidth members of a kind.                          *)
(***************************************************************************)
MaxNodes == 4

MaxContentNodes == 3

MaxFaultNodes == 2

MaxWidth == 2

MaxRoots == 2

MaxOptions == 1

Summary(base, path) == base \o [i \in DOMAIN path |-> ToString(path[i])]

GivenKeyword == <<"G", "i", "v", "e", "n", " ">>

TheDocstring == [mediatype |-> <<"t", "x", "t">>, content |-> <<"x", "\n", "\n", " ", "y">>]

OneRowDatatable == [values |-> << <<<<"a">>, <<"b">>>> >>]

EmptyDatatable == [values |-> <<>>]

TheDescription == <<" ", " ", "i", "\n", "\n", "j">>

\* the values of an optional attribute: left out ("bare"), given ("full"), or either
Choice(absent, present, content) ==
    CASE content = "bare" -> {absent} [] content = "full" -> {present} [] OTHER -> {absent, present}

RECURSIVE Trees(_, _, _, _, _), Forest(_, _, _, _, _, _, _)
\* the sequences of at most width trees of these classes, placed from
\* member index idx on, of at most budget nodes together
Forest(classes, base, path, idx, width, budget, content) ==
    {<<>>} \cup
    IF budget >= 1 /\ width >= 1
    THEN UNION { UNION { { <<t>> \o rest :
                             rest \in Forest(classes, base, path, idx + 1, width - 1, budget - Size(t), content) }
                         : t \in Trees(cls, base, path \o <<idx>>, budget, content) } : cls \in classes }
    ELSE {}

\* the trees of class cls at path of at most budget nodes
Trees(cls, base, path, budget, content) ==
    LET sum == Summary(base, path)
    IN  CASE cls = "Step" ->
                { Node(cls, path, GivenKeyword, sum, <<>>, ds, dt, <<>>, <<>>, <<>>) :
                    ds \in Choice(NoDocstring, TheDocstring, content),
                    dt \in Choice(NoDatatable, OneRowDatatable, content) }
          [] cls = "Examples" ->
                { Node(cls, path, Title(ExamplesWord), sum, <<>>, NoDocstring, dt, <<>>, <<>>, <<>>) :
                    dt \in Choice(EmptyDatatable, OneRowDatatable, content) }
          [] cls = "Background" ->
                { Node(cls, path, Title(BackgroundWord), sum, <<>>, NoDocstring, NoDatatable, <<>>, st, <<>>) :
                    st \in Forest({"Step"}, base, path, 1, MaxWidth, budget - 1, content) }
          [] cls = "Scenario" ->
                UNION { { Node(cls, path, IF ex = <<>> THEN Title(ScenarioWord) ELSE ScenarioOutlineLabel,
                               sum, <<>>, NoDocstring, NoDatatable, <<>>, st, ex) :
                            ex \in Forest({"Examples"}, base, path, Len(st) + 1, MaxWidth,
                                          budget - 1 - SizeAll(st), content) }
                        : st \in Forest({"Step"}, base, path, 1, MaxWidth, budget - 1, content) }
          [] cls = "Rule" ->
                { Node(cls, path, Title(RuleWord), sum, <<>>, NoDocstring, NoDatatable, ch, <<>>, <<>>) :
                    ch \in Forest({"Background", "Scenario"}, base, path, 1, MaxWidth, budget - 1, content) }
          [] cls = "Feature" ->
                { Node(cls, path, Title(FeatureWord), sum, d, NoDocstring, NoDatatable, ch, <<>>, <<>>) :
                    d \in Choice(<<>>, TheDescription, content),
                    ch \in Forest({"Rule", "Background", "Scenario"}, base, path, 1, MaxWidth, budget - 1, content) }

Tags == {"feature", "rule", "background", "scenario", "examples", "step"}

HealthyRegistry ==
    [tag \in Tags |-> CHOOSE cls \in DocumenterClasses : ObjType(cls) = tag]

FaultyRegistries ==
    {[tag \in Tags \ {t} |-> HealthyRegistry[tag]] : t \in Tags}
    \cup {[HealthyRegistry EXCEPT ![t] = "ForeignDocumenter"] : t \in Tags}

RootR == <<"/", "r">>

RootQ == <<"/", "q">>

KeyRA == <<"/", "r", "/", "a">>

KeyQA == <<"/", "q", "/", "a">>

KeyQB == <<"/", "q", "/", "b">>

Document(name, feature) == [name |-> name, feature |-> feature]

OneDocument(feature) == [key \in {KeyRA} |-> Document(KeyRA, feature)]

\* the bare Feature of Document key: the one of /r/a is named a, as its file
BareFeature(key) ==
    LET base == CASE key = KeyRA -> <<"a">> [] key = KeyQA -> <<"x">> [] key = KeyQB -> <<"b">>
    IN  CHOOSE t \in Trees("Feature", base, <<>>, 1, "bare") : TRUE

Setups ==
    {[registry |-> HealthyRegistry, documents |-> OneDocument(t), sources |-> <<RootR>>] :
        t \in Trees("Feature", <<"s">>, <<>>, MaxNodes, "bare")
               \cup Trees("Feature", <<"s">>, <<>>, MaxNodes, "full")
               \cup Trees("Feature", <<"s">>, <<>>, MaxContentNodes, "any")}
    \cup {[registry |-> r, documents |-> OneDocument(t), sources |-> <<RootR>>] :
        r \in FaultyRegistries, t \in Trees("Feature", <<"s">>, <<>>, MaxFaultNodes, "bare")}
    \cup {[registry |-> HealthyRegistry,
           documents |-> [key \in keys |-> Document(key, BareFeature(key))],
           sources |-> roots] :
        keys \in SUBSET {KeyRA, KeyQA, KeyQB}, roots \in SeqsUpTo({RootR, RootQ}, MaxRoots)}

DirectiveClasses ==
    {"AutoFeatureDescription", "AutoRuleDescription", "AutoBackgroundDescription",
     "AutoScenarioDescription", "AutoExamplesDescription", "AutoStepDescription",
     "AutoScenarioOutlineDescription"}

\* the name each directive class is registered and invoked under
DirectiveName(cls) ==
    GherkinQualifier \o AutoPrefix \o
    CASE cls = "AutoFeatureDescription" -> FeatureWord
      [] cls = "AutoRuleDescription" -> RuleWord
      [] cls = "AutoBackgroundDescription" -> BackgroundWord
      [] cls = "AutoScenarioDescription" -> ScenarioWord
      [] cls = "AutoExamplesDescription" -> ExamplesWord
      [] cls = "AutoStepDescription" -> StepWord
      [] cls = "AutoScenarioOutlineDescription" -> ScenarioWord \o OutlineWord

\* the keyword class a directive class documents
KeywordClass(cls) ==
    CASE cls = "AutoFeatureDescription" -> "Feature"
      [] cls = "AutoRuleDescription" -> "Rule"
      [] cls = "AutoBackgroundDescription" -> "Background"
      [] cls = "AutoScenarioDescription" -> "Scenario"
      [] cls = "AutoExamplesDescription" -> "Examples"
      [] cls = "AutoStepDescription" -> "Step"
      [] cls = "AutoScenarioOutlineDescription" -> "Scenario"

MissingReference == <<"m">>

PathReferences == {<<"a">>, <<"b">>, <<".", "/", "a">>, KeyQA}

\* the reference arguments of a directive of class cls: the names of the
\* keywords of its class, a name of no keyword and, for a Feature, file paths
References(cls, docs) ==
    {n.summary : n \in {m \in AllNodes(docs) : m.cls = KeywordClass(cls)}}
    \cup {MissingReference}
    \cup IF cls = "AutoFeatureDescription" THEN PathReferences ELSE {}

OptionNames == {"noindex", "bogus"}

OptionValues == {<<>>, <<"x">>}

\* self.options.items(): at most MaxOptions options of distinct names
OptionItems ==
    {items \in SeqsUpTo(OptionNames \X OptionValues, MaxOptions) :
        \A i, j \in DOMAIN items : i # j => items[i][1] # items[j][1]}

\* self.content: the body of the directive, with the source of each line
Contents ==
    {<<>>,
     <<[line |-> <<" ", "m">>, source |-> <<"index.rst">>],
       [line |-> <<" ">>, source |-> <<"index.rst">>]>>}

\* the option items a directive over docs is invoked with: any of them over
\* documents of at most MaxFaultNodes keywords each, the well-formed ones over
\* the larger documents
OptionItemsOver(docs) ==
    IF \A k \in DOMAIN docs : Size(docs[k].feature) <= MaxFaultNodes
    THEN OptionItems
    ELSE {items \in OptionItems :
            \A i \in DOMAIN items : items[i][1] = "noindex" /\ items[i][2] = <<>>}

NoDirective == [cls |-> "none", name |-> <<>>, arguments |-> <<>>, options |-> <<>>, content |-> <<>>]

Directives(docs) ==
    UNION {{[cls |-> cls, name |-> DirectiveName(cls), arguments |-> <<sig>>,
             options |-> items, content |-> content] :
               sig \in References(cls, docs), items \in OptionItemsOver(docs),
               content \in Contents}
           : cls \in DirectiveClasses}

RunIdle ==
    /\ directive = NoDirective
    /\ pc = "ready"
    /\ documenter_class = None
    /\ genopt = {}
    /\ found = NotFound
    /\ stack = <<>>
    /\ result = <<>>
    /\ origin = <<>>
    /\ deps = {}
    /\ scope = <<>>
    /\ diagnostics = <<>>
    /\ recorded = {}
    /\ ret = <<>>
    /\ error = None
    /\ foreignGenerated = FALSE

EnvIdle ==
    /\ registry = HealthyRegistry
    /\ documents = OneDocument(BareFeature(KeyRA))
    /\ sources = <<RootR>>

Init ==
    /\ KeywordIdle
    /\ TableIdle
    /\ RunIdle
    /\ \E s \in Setups :
        /\ registry = s.registry
        /\ documents = s.documents
        /\ sources = s.sources

(***************************************************************************)
(* Actions.                                                                *)
(***************************************************************************)
\* a directive of class cls, invoked under name, has its keyword property read
ReadKeyword(cls, name) ==
    /\ kwPc = "idle"
    /\ kwPc' = "done"
    /\ kwCls' = cls
    /\ kwName' = name
    /\ kwLabel' = Keyword(cls, name)
    /\ UNCHANGED <<tblVars, envVars, runVars>>

\* format_datatable(self, datatable) on a Documenter whose indent is Indent(n)
CallFormatDatatable(n, values) ==
    /\ tblPc = "idle"
    /\ tblPc' = "done"
    /\ tblIndent' = Indent(n)
    /\ tblValues' = values
    /\ tblOut' = FormatDatatable(Indent(n), values)
    /\ UNCHANGED <<kwVars, envVars, runVars>>

\* a Documenter instance: Documenter.__init__, and where its generate()
\* stands; keyword is the path of self.keyword in self.gherkin_document
Frame(documenter, keyword, indent, more_content) ==
    [documenter |-> documenter, keyword |-> keyword, indent |-> indent, more_content |-> more_content,
     stage |-> "header", i |-> 1]

Top == stack[Len(stack)]

\* self.gherkin_document of the active Documenters
GherkinDocument == documents[found.document]

\* self.keyword of the innermost active Documenter
TopKeyword == NodeAt(GherkinDocument.feature, Top.keyword)

SetTop(frame) == [stack EXCEPT ![Len(stack)] = frame]

\* bridge.result.append for each entry, with the history of the append
Emit(entries, by, indent, published) ==
    /\ result' = result \o [k \in DOMAIN entries |-> [line |-> entries[k].line, source |-> entries[k].source]]
    /\ origin' = origin \o [k \in DOMAIN entries |->
                               [by |-> by, part |-> entries[k].part, indent |-> indent, scope |-> published]]

\* run(), to the registry lookup: the keyword label, its objtype, the class
Run_LookupDocumenter ==
    /\ pc = "ready"
    /\ \E d \in Directives(documents) :
        /\ directive' = d
        /\ LET objtype == KeywordToObjtype(Keyword(d.cls, d.name))
           IN  IF objtype \in DOMAIN registry
               THEN /\ documenter_class' = registry[objtype]
                    /\ pc' = "options"
                    /\ error' = error
               ELSE /\ documenter_class' = documenter_class
                    /\ pc' = "raised"
                    /\ error' = "KeyError"
    /\ UNCHANGED <<genopt, found, stack, result, origin, deps, scope, diagnostics, recorded, ret,
                   foreignGenerated>>
    /\ UNCHANGED <<kwVars, tblVars, envVars>>

\* run(): the options against the class's option_spec; a bad option is
\* logged and run() returns []
Run_ProcessOptions ==
    /\ pc = "options"
    /\ LET assembled == AssembleOptionDict(directive.options, OptionSpec(documenter_class))
       IN  IF assembled.exc # None
           THEN /\ diagnostics' = Append(diagnostics, [level |-> "error", name |-> directive.name,
                                                       exc |-> assembled.exc])
                /\ ret' = <<>>
                /\ pc' = "returned"
                /\ genopt' = genopt
           ELSE /\ genopt' = assembled.options
                /\ pc' = "resolve"
                /\ UNCHANGED <<diagnostics, ret>>
    /\ UNCHANGED <<directive, documenter_class, found, stack, result, origin, deps, scope, recorded,
                   error, foreignGenerated>>
    /\ UNCHANGED <<kwVars, tblVars, envVars>>

\* run(): get_gherkin_definition, the bridge and the Documenter instance
Run_Resolve ==
    /\ pc = "resolve"
    /\ LET definition == GetGherkinDefinition(directive.cls, documents, sources, directive.arguments[1])
       IN  IF ~definition.ok
           THEN /\ pc' = "raised"
                /\ error' = "NotFound"
                /\ UNCHANGED <<found, stack>>
           ELSE /\ found' = definition
                /\ error' = error
                /\ IF IsDocumenter(documenter_class)
                   THEN /\ stack' = <<Frame(documenter_class, definition.keyword, <<>>, directive.content)>>
                        /\ pc' = "generate"
                   ELSE /\ stack' = stack
                        /\ pc' = "foreign"
    /\ UNCHANGED <<directive, documenter_class, genopt, result, origin, deps, scope, diagnostics,
                   recorded, ret, foreignGenerated>>
    /\ UNCHANGED <<kwVars, tblVars, envVars>>

\* generate(), to the increase of self.indent: the dependency, the header,
\* the option lines, the blank line
Generate_Header ==
    /\ pc = "generate"
    /\ Top.stage = "header"
    /\ LET sourcename == GherkinDocument.name
       IN  /\ deps' = deps \cup {GherkinDocument.name}
           /\ Emit(AddDirectiveHeader(Top.documenter, TopKeyword, Top.indent, sourcename)
                       \o <<Entry(Top.indent, <<>>, sourcename, "sep")>>,
                   Top.keyword, Top.indent, scope)
    /\ stack' = SetTop([Top EXCEPT !.indent = IncreaseIndent(Top.indent), !.stage = "content"])
    /\ UNCHANGED <<directive, pc, documenter_class, genopt, found, scope, diagnostics, recorded, ret,
                   error, foreignGenerated>>
    /\ UNCHANGED <<kwVars, tblVars, envVars>>

\* generate(): the scope is published, then add_content and the blank line
Generate_Content ==
    /\ pc = "generate"
    /\ Top.stage = "content"
    /\ LET sourcename == GherkinDocument.name
           published == DocumentedKeyword(GherkinDocument, TopKeyword)
       IN  /\ scope' = published
           /\ Emit(AddContent(Top.documenter, TopKeyword, Top.indent, sourcename, Top.more_content)
                       \o <<Entry(Top.indent, <<>>, sourcename, "end")>>,
                   Top.keyword, Top.indent, published)
    /\ stack' = SetTop([Top EXCEPT !.stage = "members"])
    /\ UNCHANGED <<directive, pc, documenter_class, genopt, found, deps, diagnostics, recorded, ret,
                   error, foreignGenerated>>
    /\ UNCHANGED <<kwVars, tblVars, envVars>>

\* document_members(): one turn of its loop, which looks the child's class
\* up, checks it and calls generate() on a new instance; or its end, when
\* generate() returns to its caller
Generate_Members ==
    /\ pc = "generate"
    /\ Top.stage = "members"
    /\ LET children == ChildKeywords(Top.documenter, TopKeyword)
       IN  IF Top.i > Len(children)
           THEN /\ stack' = SubSeq(stack, 1, Len(stack) - 1)
                /\ pc' = IF Len(stack) = 1 THEN "finish" ELSE "generate"
                /\ error' = error
           ELSE LET child == children[Top.i]
                    objtype == ObjtypeForKeywordClass(child.cls)
                IN  IF objtype \notin DOMAIN registry
                    THEN /\ pc' = "raised"
                         /\ error' = "KeyError"
                         /\ stack' = <<>>
                    ELSE IF ~IsDocumenter(registry[objtype])
                    THEN /\ pc' = "raised"
                         /\ error' = "SphinxGherkinError"
                         /\ stack' = <<>>
                    ELSE /\ pc' = pc
                         /\ error' = error
                         /\ stack' = Append(SetTop([Top EXCEPT !.i = Top.i + 1]),
                                            Frame(registry[objtype], child.path, Top.indent, <<>>))
    /\ UNCHANGED <<directive, documenter_class, genopt, found, result, origin, deps, scope,
                   diagnostics, recorded, ret, foreignGenerated>>
    /\ UNCHANGED <<kwVars, tblVars, envVars>>

ForeignOutputs == {<<>>, <<[line |-> <<"x">>, source |-> <<"x">>, part |-> "foreign"]>>}

\* run(): generate() of an instance of a class that is no Documenter; what
\* it appends to bridge.result is its own affair
Foreign_Generate ==
    /\ pc = "foreign"
    /\ foreignGenerated' = TRUE
    /\ \E lines \in ForeignOutputs : Emit(lines, <<>>, <<>>, scope)
    /\ pc' = "finish"
    /\ UNCHANGED <<directive, documenter_class, genopt, found, stack, deps, scope, diagnostics,
                   recorded, ret, error>>
    /\ UNCHANGED <<kwVars, tblVars, envVars>>

\* run(), after generate(): nothing for an empty result; else the
\* dependencies are recorded and the lines parsed
Run_Finish ==
    /\ pc = "finish"
    /\ IF result = <<>>
       THEN /\ ret' = <<>>
            /\ recorded' = recorded
       ELSE /\ recorded' = recorded \cup deps
            /\ ret' = result
    /\ pc' = "returned"
    /\ UNCHANGED <<directive, documenter_class, genopt, found, stack, result, origin, deps, scope,
                   diagnostics, error, foreignGenerated>>
    /\ UNCHANGED <<kwVars, tblVars, envVars>>

Next ==
    \/ Run_LookupDocumenter
    \/ Run_ProcessOptions
    \/ Run_Resolve
    \/ Generate_Header
    \/ Generate_Content
    \/ Generate_Members
    \/ Foreign_Generate
    \/ Run_Finish

Spec == Init /\ [][Next]_vars

InitKeyword == KeywordIdle /\ TableIdle /\ EnvIdle /\ RunIdle

KeywordNext ==
    \E cls \in {"AutoScenarioDescription", "AutoScenarioOutlineDescription"}, name \in InvocationNames :
        ReadKeyword(cls, name)

SpecKeyword == InitKeyword /\ [][KeywordNext]_vars

InitTable == KeywordIdle /\ TableIdle /\ EnvIdle /\ RunIdle

TableNext == \E n \in 0..MaxIndent, values \in Tables : CallFormatDatatable(n, values)

SpecTable == InitTable /\ [][TableNext]_vars

(***************************************************************************)
(* Properties.                                                             *)
(***************************************************************************)
\* the Document generate() walks and the keyword run() was pointed at
WalkedFeature == documents[found.document].feature

KeywordOf(path) == NodeAt(WalkedFeature, path)

Generating == found.ok /\ documenter_class # None /\ IsDocumenter(documenter_class)

IsBlank(line) == line = <<>>

RECURSIVE LeadingSpaces(_)
LeadingSpaces(line) == IF line # <<>> /\ Head(line) = " " THEN 1 + LeadingSpaces(Tail(line)) ELSE 0

\* some option of the directive is unknown to the schema or fails conversion
OptionsInvalid ==
    \E i \in DOMAIN directive.options :
        \/ directive.options[i][1] \notin DOMAIN OptionSpec(documenter_class)
        \/ ~ConverterAccepts(OptionSpec(documenter_class)[directive.options[i][1]], directive.options[i][2])

(***************************************************************************)
(* C1: when run() is given an option unknown to the resolved class's       *)
(* option schema, or one whose value fails conversion, it returns an empty *)
(* result with exactly one diagnostic and raises nothing; no reference is  *)
(* resolved, no line emitted and no dependency recorded, whether or not    *)
(* the reference would resolve.                                            *)
(***************************************************************************)
C1_InvalidOptionYieldsNothing ==
    (documenter_class # None /\ OptionsInvalid) =>
        /\ pc \in {"options", "returned"}
        /\ error = None
        /\ ~found.ok
        /\ stack = <<>>
        /\ result = <<>>
        /\ deps = {}
        /\ recorded = {}
        /\ ~foreignGenerated
        /\ pc = "options" => diagnostics = <<>>
        /\ pc = "returned" => ret = <<>> /\ Len(diagnostics) = 1

C1_Witness ==
    /\ pc = "returned"
    /\ OptionsInvalid
    /\ Len(diagnostics) = 1
    /\ GetGherkinDefinition(directive.cls, documents, sources, directive.arguments[1]).ok

(***************************************************************************)
(* C2: when the keyword label's object-type tag has no Documenter in the   *)
(* registry, run() reports the failure and yields no output, and raises no *)
(* error.                                                                  *)
(***************************************************************************)
C2_UnregisteredKindIsReported ==
    (directive # NoDirective /\ KeywordToObjtype(Keyword(directive.cls, directive.name)) \notin DOMAIN registry) =>
        /\ error = None
        /\ pc = "returned"
        /\ ret = <<>>
        /\ Len(diagnostics) >= 1

(***************************************************************************)
(* C3: every node of the generated subtree gets its header line exactly    *)
(* once, in depth-first document order; the header holds the node's        *)
(* directive name and summary and precedes every other line of the node    *)
(* and every line of its descendants.                                      *)
(***************************************************************************)
HeaderPaths ==
    LET headers == SelectSeq(origin, LAMBDA e : e.part = "header")
    IN  [k \in DOMAIN headers |-> headers[k].by]

PreorderPaths ==
    LET nodes == Preorder(KeywordOf(found.keyword))
    IN  [k \in DOMAIN nodes |-> nodes[k].path]

ExpectedDirectiveName(node) ==
    CASE node.cls = "Feature" -> <<"feature">>
      [] node.cls = "Rule" -> <<"rule">>
      [] node.cls = "Background" -> <<"background">>
      [] node.cls = "Scenario" -> <<"scenario">>
      [] node.cls = "Examples" -> <<"examples">>
      [] node.cls = "Step" -> <<"g", "i", "v", "e", "n">>

C3_OneHeaderPerNodeInOrder ==
    Generating =>
        /\ IsPrefix(HeaderPaths, PreorderPaths)
        /\ pc \in {"finish", "returned"} => HeaderPaths = PreorderPaths
        /\ \A i \in DOMAIN origin :
            /\ origin[i].part = "header" =>
                   result[i].line = origin[i].indent
                                    \o <<"..", " ", "gherkin", ":">>
                                    \o ExpectedDirectiveName(KeywordOf(origin[i].by))
                                    \o <<"::", " ">> \o KeywordOf(origin[i].by).summary
            /\ \A n \in 0..Len(origin[i].by) :
                   LET p == SubSeq(origin[i].by, 1, n)
                   IN  IsPrefix(found.keyword, p) =>
                           \E h \in 1..i : origin[h].part = "header" /\ origin[h].by = p

C3_Witness ==
    /\ Generating
    /\ pc = "returned"
    /\ HeaderPaths = PreorderPaths
    /\ \E k \in DOMAIN PreorderPaths :
           LET node == KeywordOf(PreorderPaths[k])
           IN  node.cls = "Scenario" /\ node.steps # <<>> /\ node.examples # <<>>

(***************************************************************************)
(* C4: for every parent/child pair of the generated tree, the child's      *)
(* non-blank lines carry the indent prefix of the parent's lines of the    *)
(* same part (header and options, or content) plus exactly one unit of     *)
(* four spaces; a blank line is emitted empty.                             *)
(***************************************************************************)
PartClass(part) == IF part \in {"header", "option", "sep"} THEN "head" ELSE "body"

C4_ChildIndentIsParentPlusOneUnit ==
    Generating =>
        /\ \A i \in DOMAIN result :
            ~IsBlank(result[i].line) =>
                /\ IsPrefix(origin[i].indent, result[i].line)
                /\ origin[i].part = "header" => LeadingSpaces(result[i].line) = Len(origin[i].indent)
        /\ \A i, j \in DOMAIN result :
            (/\ ~IsBlank(result[i].line)
             /\ ~IsBlank(result[j].line)
             /\ Len(origin[j].by) = Len(origin[i].by) + 1
             /\ IsPrefix(origin[i].by, origin[j].by)
             /\ PartClass(origin[i].part) = PartClass(origin[j].part))
            => /\ origin[j].indent = origin[i].indent \o <<" ", " ", " ", " ">>
               /\ LeadingSpaces(result[j].line) >= LeadingSpaces(result[i].line)

C4_Witness ==
    /\ Generating
    /\ \E i, j \in DOMAIN result :
        /\ ~IsBlank(result[i].line)
        /\ ~IsBlank(result[j].line)
        /\ Len(origin[j].by) = Len(origin[i].by) + 1
        /\ IsPrefix(origin[i].by, origin[j].by)
        /\ origin[i].part = "more"
        /\ origin[j].part = "content"
        /\ Len(origin[j].indent) = 8

(***************************************************************************)
(* C5: a Feature reference is resolved in two tiers.  If some source root, *)
(* taken in order, joined with the reference is a key of the document      *)
(* store, the result is the Document under the first such key and its root *)
(* Feature; otherwise it is what find_one returns for the reference, and   *)
(* resolution fails with not-found exactly when find_one misses too.       *)
(***************************************************************************)
Resolved == found.ok \/ error = "NotFound"

MatchingRoots == {i \in DOMAIN sources : JoinPath(sources[i], directive.arguments[1]) \in DOMAIN documents}

FirstMatchingRoot == CHOOSE i \in MatchingRoots : \A j \in MatchingRoots : i <= j

C5_FeatureReferenceTwoTier ==
    /\ pc \in {"generate", "foreign", "finish"} => found.ok
    /\ (directive.cls = "AutoFeatureDescription" /\ Resolved) =>
        IF MatchingRoots # {}
        THEN /\ found.ok
             /\ found.document = JoinPath(sources[FirstMatchingRoot], directive.arguments[1])
             /\ found.keyword = documents[found.document].feature.path
             /\ error # "NotFound"
        ELSE IF FindOne(documents, directive.arguments[1]).ok
        THEN found = FindOne(documents, directive.arguments[1]) /\ error # "NotFound"
        ELSE ~found.ok /\ error = "NotFound" /\ pc = "raised"

C5_Witness ==
    /\ directive.cls = "AutoFeatureDescription"
    /\ found.ok
    /\ Cardinality(MatchingRoots) = 2
    /\ FirstMatchingRoot = 1
    /\ found.document = JoinPath(sources[1], directive.arguments[1])
    /\ FindOne(documents, directive.arguments[1]).ok
    /\ FindOne(documents, directive.arguments[1]) # found

(***************************************************************************)
(* C6: the label is the invocation name with its namespace qualifier (all  *)
(* text before the colon, whatever its length) and then a 4-character      *)
(* prefix removed, title-cased; the Scenario-Outline variant always yields *)
(* "Scenario Outline".                                                     *)
(***************************************************************************)
Unqualified(name) == IF Contains(name, ":") THEN AfterFirst(name, ":") ELSE name

C6_LabelStripsAnyQualifier ==
    kwPc = "done" =>
        IF kwCls = "AutoScenarioOutlineDescription"
        THEN kwLabel = ScenarioOutlineLabel
        ELSE kwLabel = Title(DropChars(Unqualified(kwName), 4))

(***************************************************************************)
(* C7: the data-table formatter emits the list-table marker, one blank     *)
(* line, and one line per cell in row-major order: "* - <cell>" for the    *)
(* first cell of a row and "  - <cell>" for each later one, under the      *)
(* Documenter's indent and one content indent; nothing else for zero rows. *)
(***************************************************************************)
RECURSIVE CellsBefore(_, _)
CellsBefore(values, r) == IF r = 1 THEN 0 ELSE CellsBefore(values, r - 1) + Len(values[r - 1])

C7_DataTableLines ==
    tblPc = "done" =>
        LET under == tblIndent \o <<" ", " ", " ", " ">>
        IN  /\ Len(tblOut) = 2 + CellsBefore(tblValues, Len(tblValues) + 1)
            /\ tblOut[1] = tblIndent \o <<"..", " ", "list-table", "::">>
            /\ tblOut[2] = <<>>
            /\ \A r \in DOMAIN tblValues : \A c \in DOMAIN tblValues[r] :
                   tblOut[2 + CellsBefore(tblValues, r) + c] =
                       under \o (IF c = 1 THEN <<"*", " ", "-", " ">> ELSE <<" ", " ", "-", " ">>)
                             \o tblValues[r][c]
            /\ tblValues = ExampleTable =>
                   SubSeq(tblOut, 3, Len(tblOut)) =
                       <<under \o <<"*", " ", "-", " ", "a">>, under \o <<" ", " ", "-", " ", "b">>,
                         under \o <<"*", " ", "-", " ", "c">>, under \o <<" ", " ", "-", " ", "d">>>>
            /\ tblValues = <<>> => Len(tblOut) = 2

C7_Witness ==
    /\ tblPc = "done"
    /\ tblValues = ExampleTable
    /\ Len(tblOut) = 6
    /\ tblIndent # <<>>

(***************************************************************************)
(* C8: a node whose optional content is absent (a Step without docstring   *)
(* or without data table, an Examples block without data table rows, a     *)
(* Feature without description) emits nothing for it: no code-block line,  *)
(* no list-table marker, no content line.                                  *)
(***************************************************************************)
C8_AbsentContentEmitsNothing ==
    Generating =>
        \A i \in DOMAIN result :
            LET node == KeywordOf(origin[i].by)
            IN  /\ Contains(result[i].line, "code-block") => node.docstring # NoDocstring
                /\ Contains(result[i].line, "list-table") =>
                       node.datatable # NoDatatable /\ node.datatable.values # <<>>
                /\ (origin[i].part = "content" /\ node.cls = "Feature") => node.description # <<>>

(***************************************************************************)
(* C9: every line of a node's content is emitted with the scope published  *)
(* for that node, the (label, summary) pairs of its ancestry from the      *)
(* Feature down to the node; the scope is published after the node's       *)
(* header and before its first content line.                               *)
(***************************************************************************)
RootToLeaf(path) ==
    [k \in 1..(Len(path) + 1) |->
        LET node == KeywordOf(SubSeq(path, 1, k - 1)) IN <<node.keyword, node.summary>>]

C9_ScopeIsRootToLeaf ==
    Generating =>
        /\ \A path \in {origin[i].by : i \in DOMAIN origin} :
            LET expected == RootToLeaf(path)
            IN  \A i \in DOMAIN origin :
                    origin[i].by = path =>
                        /\ origin[i].part \in {"content", "more", "end"} => origin[i].scope = expected
                        /\ origin[i].part \in {"header", "option", "sep"} => origin[i].scope # expected
        /\ (pc = "generate" /\ Top.stage = "members" /\ Top.i = 1) => scope = RootToLeaf(Top.keyword)

C9_Witness ==
    /\ Generating
    /\ \E i \in DOMAIN origin :
        /\ origin[i].part = "content"
        /\ Len(origin[i].scope) = 4
        /\ origin[i].scope[1][1] = <<"F", "e", "a", "t", "u", "r", "e">>
        /\ origin[i].scope[2][1] = <<"R", "u", "l", "e">>
        /\ origin[i].scope[3][1] = <<"S", "c", "e", "n", "a", "r", "i", "o">>
        /\ origin[i].scope[4] = <<GivenKeyword, KeywordOf(origin[i].by).summary>>

(***************************************************************************)
(* C10: when the registry entry resolved for a node, in run() or in        *)
(* document_members(), is no Documenter, processing aborts with an error   *)
(* and generate() is never invoked on the entry.                           *)
(***************************************************************************)
C10_NonDocumenterEntryAborts ==
    /\ ~foreignGenerated
    /\ (documenter_class # None /\ ~IsDocumenter(documenter_class)) =>
           pc \in {"options", "raised"} /\ (pc = "raised" => error = "SphinxGherkinError")

====
